---- MODULE Spec2Model ----
(***************************************************************************)
(* Model of src/src/source.py: the KnowledgeBaseBuilder (document loading, *)
(* index build / persist / load, query engine), the search_knowledge_base  *)
(* tool over the module-global query_engine, the crew assembled by         *)
(* AnalysisCrewBuilder.create_analysis_crew, and main().                   *)
(*                                                                         *)
(* Four specifications share the state:                                    *)
(*   Spec      a caller building, persisting and reloading indexes on two  *)
(*             builders and two persist directories;                       *)
(*   LoadSpec  a caller filling one builder from the four kinds of source  *)
(*             and indexing it;                                            *)
(*   ToolSpec  a caller building indexes, setting the global query_engine, *)
(*             creating crews and calling the tool;                        *)
(*   MainSpec  one run of main(), including the sequential execution of    *)
(*             the crew started by crew.kickoff().                         *)
(*                                                                         *)
(* The libraries (readers, node parser, vector index, storage, crew        *)
(* executor) are represented by what the program hands to them and gets    *)
(* back: a document is (kind, source, part), an index is (id, documents it *)
(* was built from), a query engine is (index, top_k, response mode).  A    *)
(* library call that can fail with an exception has a failing outcome; the *)
(* program catches nothing, so the exception leaves the operation at the   *)
(* statement that raised.  The progress messages printed by the builder    *)
(* are output only and are not modelled; the result printed by main() is.  *)
(***************************************************************************)
EXTENDS Integers, Sequences, FiniteSets, TLC

\* ------------------------------------------------------------------ bounds
\* callers of the operations: documents loaded over all builders (and so the
\* paths of one load call), build_index calls.  main(): tool calls an agent
\* makes in one task.
MaxDocs == 2
MaxBuilds == 2
MaxToolCalls == 1

\* ------------------------------------------------------------- value space
None == [tag |-> "None"]

Builders == {"kb1", "kb2"}
DefaultDir == "./storage"
Dirs == {DefaultDir, "./alt"}

\* the files and pages a caller may name (main() names its own, below)
PdfPaths == {"./data/report1.pdf"}
DocxPaths == {"./data/document1.docx"}
TxtPaths == {"./data/notes.txt"}
Urls == {"https://example.com/article1", "https://example.com/article2"}
\* pages a PDF file may turn out to have (PDFReader returns one document a page)
PageCounts == {1, 2}
Queries == {"key trends", "main themes"}

DefaultTopK == 5
TopKs == {DefaultTopK, 3}

VARIABLES
    documents,     \* builder -> self.documents
    index,         \* builder -> self.index (None until built or loaded)
    storage,       \* persist directory -> the index stored there (None: nothing)
    nextId,        \* identity of the next VectorStoreIndex object created
    query_engine,  \* the module global
    crew,          \* the Crew returned by create_analysis_crew (None: not created)
    taskState,     \* task -> "pending" | "running" | "done"
    taskContext,   \* task -> the context outputs handed to it when it started
    taskOutput,    \* task -> its output (None until done)
    toolCalls,     \* task -> tool calls its agent has made
    result,        \* main: the value returned by crew.kickoff()
    printed,       \* main: what print(result) wrote
    report,        \* the content of analysis_report.md (None: not written)
    pc,            \* main: the next statement ("idle": main is not running)
    last,          \* the most recent operation: arguments, outcome, value
    added,         \* history: builder -> every document the readers returned to it
    assigned,      \* history: builder -> a build_index created its index on it, or
                   \*          a load_index completed on it
    completed,     \* history: builder -> a build_index or a load_index returned on it
    lastBuilt,     \* history: directory -> index of the latest build_index that returned
    crewBeforeEngine \* history: the crew was created while query_engine was None

vars == <<documents, index, storage, nextId, query_engine, crew, taskState,
          taskContext, taskOutput, toolCalls, result, printed, report, pc, last,
          added, assigned, completed, lastBuilt, crewBeforeEngine>>

kbVars == <<documents, index, storage, nextId, added, assigned, completed, lastBuilt>>
crewVars == <<crew, taskState, taskContext, taskOutput, toolCalls, crewBeforeEngine>>
outVars == <<result, printed, report>>

\* the record every operation leaves in `last`
Op(name, outcome, value, input, issued) ==
    [op |-> name, outcome |-> outcome, value |-> value,
     input |-> input, issued |-> issued]

\* --------------------------------------------------------- library values
\* PDFReader.load_data(file=path): one document per page of the file
PDFReader_load_data(path, n) ==
    [i \in 1..n |-> [kind |-> "pdf", src |-> path, part |-> i]]

\* DocxReader.load_data(file=path): one document for the file
DocxReader_load_data(path) ==
    <<[kind |-> "docx", src |-> path, part |-> 1]>>

\* Document(text=content, metadata={"source": path})
TextDocument(path) ==
    [kind |-> "txt", src |-> path, part |-> 1]

\* SimpleWebPageReader().load_data(urls): one document per url, in url order
SimpleWebPageReader_load_data(urls) ==
    [i \in 1..Len(urls) |-> [kind |-> "web", src |-> urls[i], part |-> 1]]

\* list.extend and list.append on self.documents
ListExtend(list, docs) == list \o docs

ListAppend(list, doc) == Append(list, doc)

\* VectorStoreIndex(nodes), nodes being the chunks the parser cuts from docs
\* in document order: a new index object over exactly those documents
VectorStoreIndex(id, docs) ==
    [tag |-> "index", id |-> id, docs |-> docs]

\* index.as_query_engine(similarity_top_k=k, response_mode="compact")
AsQueryEngine(idx, k) ==
    [tag |-> "engine", index |-> idx, top_k |-> k, mode |-> "compact"]

\* engine.query(text) and str(x)
Response(engine, text) ==
    [tag |-> "response", engine |-> engine, text |-> text]

Str(x) == [tag |-> "str", of |-> x]

Literal(text) == [tag |-> "str", of |-> [tag |-> "text", text |-> text]]

NotInitialized == Literal("Error: Knowledge base not initialized")

Exception(kind) == [tag |-> kind]

\* ------------------------------------------------- KnowledgeBaseBuilder
\* self.documents after the first n iterations of the loop of load_pdfs
RECURSIVE PdfLoop(_, _, _, _)
PdfLoop(docs, paths, pages, n) ==
    IF n = 0 THEN docs
    ELSE ListExtend(PdfLoop(docs, paths, pages, n - 1),
                    PDFReader_load_data(paths[n], pages[n]))

RECURSIVE DocxLoop(_, _, _)
DocxLoop(docs, paths, n) ==
    IF n = 0 THEN docs
    ELSE ListExtend(DocxLoop(docs, paths, n - 1), DocxReader_load_data(paths[n]))

RECURSIVE TextLoop(_, _, _)
TextLoop(docs, paths, n) ==
    IF n = 0 THEN docs
    ELSE ListAppend(TextLoop(docs, paths, n - 1), TextDocument(paths[n]))

\* history: what the readers returned in the first n iterations
RECURSIVE PdfRead(_, _, _)
PdfRead(paths, pages, n) ==
    IF n = 0 THEN <<>>
    ELSE PdfRead(paths, pages, n - 1) \o PDFReader_load_data(paths[n], pages[n])

RECURSIVE DocxRead(_, _)
DocxRead(paths, n) ==
    IF n = 0 THEN <<>>
    ELSE DocxRead(paths, n - 1) \o DocxReader_load_data(paths[n])

RECURSIVE TextRead(_, _)
TextRead(paths, n) ==
    IF n = 0 THEN <<>> ELSE TextRead(paths, n - 1) \o <<TextDocument(paths[n])>>

\* iterations that run to their end when the failAt-th one raises (0: none does)
Iterations(paths, failAt) == IF failAt = 0 THEN Len(paths) ELSE failAt - 1

Outcome(failed) == IF failed THEN "raised" ELSE "returned"

LoadValue(failed) == IF failed THEN Exception("IOError") ELSE None

load_pdfs(b, paths, pages, failAt) ==
    LET n == Iterations(paths, failAt) IN
    /\ documents' = [documents EXCEPT ![b] = PdfLoop(@, paths, pages, n)]
    /\ added' = [added EXCEPT ![b] = @ \o PdfRead(paths, pages, n)]
    /\ last' = Op("load_pdfs", Outcome(failAt # 0), LoadValue(failAt # 0), <<>>, <<>>)
    /\ UNCHANGED <<index, storage, nextId, assigned, completed, lastBuilt>>

load_docx(b, paths, failAt) ==
    LET n == Iterations(paths, failAt) IN
    /\ documents' = [documents EXCEPT ![b] = DocxLoop(@, paths, n)]
    /\ added' = [added EXCEPT ![b] = @ \o DocxRead(paths, n)]
    /\ last' = Op("load_docx", Outcome(failAt # 0), LoadValue(failAt # 0), <<>>, <<>>)
    /\ UNCHANGED <<index, storage, nextId, assigned, completed, lastBuilt>>

load_text_files(b, paths, failAt) ==
    LET n == Iterations(paths, failAt) IN
    /\ documents' = [documents EXCEPT ![b] = TextLoop(@, paths, n)]
    /\ added' = [added EXCEPT ![b] = @ \o TextRead(paths, n)]
    /\ last' = Op("load_text_files", Outcome(failAt # 0), LoadValue(failAt # 0),
                  <<>>, <<>>)
    /\ UNCHANGED <<index, storage, nextId, assigned, completed, lastBuilt>>

\* one load_data call for all urls: it returns all the pages or raises
add_web_content(b, urls, failed) ==
    LET docs == IF failed THEN <<>> ELSE SimpleWebPageReader_load_data(urls) IN
    /\ documents' = [documents EXCEPT
                       ![b] = IF failed THEN @ ELSE ListExtend(@, docs)]
    /\ added' = [added EXCEPT ![b] = @ \o docs]
    /\ last' = Op("add_web_content", Outcome(failed), LoadValue(failed), <<>>, <<>>)
    /\ UNCHANGED <<index, storage, nextId, assigned, completed, lastBuilt>>

\* (variant: only the PDF documents are handed on)
IndexerInputPdfOnly(b) == SelectSeq(documents[b], LAMBDA d : d.kind = "pdf")
\* the documents build_index hands to the parser and so to the indexer
IndexerInput(b) == documents[b]

\* (variant: the directory argument is ignored)
PersistTargetDefault(dir) == DefaultDir
\* where build_index persists an index when asked to persist to dir
PersistTarget(dir) == dir

\* fail: "none", "index" (VectorStoreIndex raises: embedding failed) or
\* "persist" (storage_context.persist raises: self.index is already assigned)
build_index(b, dir, fail) ==
    LET input == IndexerInput(b)
        idx == VectorStoreIndex(nextId, input)
    IN
    /\ UNCHANGED <<documents, added>>
    /\ IF fail = "index"
       THEN /\ UNCHANGED <<index, storage, nextId, assigned, completed, lastBuilt>>
            /\ last' = Op("build_index", "raised", Exception("IndexError"),
                          input, <<>>)
       ELSE /\ index' = [index EXCEPT ![b] = idx]
            /\ nextId' = nextId + 1
            /\ assigned' = [assigned EXCEPT ![b] = TRUE]
            /\ IF fail = "persist"
               THEN /\ UNCHANGED <<storage, completed, lastBuilt>>
                    /\ last' = Op("build_index", "raised", Exception("IOError"),
                                  input, <<>>)
               ELSE /\ storage' = [storage EXCEPT ![PersistTarget(dir)] = idx]
                    /\ completed' = [completed EXCEPT ![b] = TRUE]
                    /\ lastBuilt' = [lastBuilt EXCEPT ![dir] = idx]
                    /\ last' = Op("build_index", "returned", index'[b], input, <<>>)

\* load_index_from_storage raises when the directory holds no index
load_index(b, dir) ==
    /\ UNCHANGED <<documents, added, storage, nextId, lastBuilt>>
    /\ IF storage[dir] = None
       THEN /\ UNCHANGED <<index, assigned, completed>>
            /\ last' = Op("load_index", "raised", Exception("IOError"), <<>>, <<>>)
       ELSE /\ index' = [index EXCEPT ![b] = storage[dir]]
            /\ assigned' = [assigned EXCEPT ![b] = TRUE]
            /\ completed' = [completed EXCEPT ![b] = TRUE]
            /\ last' = Op("load_index", "returned", index'[b], <<>>, <<>>)

\* (variant: without the test of self.index)
QueryEngineResultUnchecked(b, k) ==
    [outcome |-> "returned", value |-> AsQueryEngine(index[b], k)]
\* the outcome of get_query_engine(similarity_top_k=k) on builder b
QueryEngineResult(b, k) ==
    IF index[b] = None
    THEN [outcome |-> "raised", value |-> Exception("ValueError")]
    ELSE [outcome |-> "returned", value |-> AsQueryEngine(index[b], k)]

get_query_engine(b, k) ==
    LET r == QueryEngineResult(b, k) IN
    /\ last' = Op("get_query_engine", r.outcome, r.value, <<>>, <<>>)
    /\ UNCHANGED kbVars

\* the statement of main: query_engine = kb_builder.get_query_engine(...)
assign_query_engine(b, k) ==
    LET r == QueryEngineResult(b, k) IN
    /\ get_query_engine(b, k)
    /\ query_engine' = IF r.outcome = "returned" THEN r.value ELSE query_engine

\* ------------------------------------------------ search_knowledge_base
\* (variant: the value the global had when the tool was defined)
EngineAtDefinition == None
\* the engine the tool consults when it is called
ToolEngine == query_engine

search_knowledge_base(q, queryFails) ==
    LET engine == ToolEngine IN
    IF engine = None
    THEN last' = Op("search_knowledge_base", "returned", NotInitialized,
                    <<>>, <<>>)
    ELSE LET call == [engine |-> engine, text |-> q] IN
         IF queryFails
         THEN last' = Op("search_knowledge_base", "raised",
                         Exception("QueryError"), <<>>, <<call>>)
         ELSE last' = Op("search_knowledge_base", "returned",
                         Str(Response(engine, q)), <<>>, <<call>>)

\* -------------------------------------------------- AnalysisCrewBuilder
Tasks == {"research_task", "analysis_task", "report_task"}

\* create_research_agent, create_data_analyst_agent, create_report_writer_agent
Agent(role) ==
    [role |-> role, tools |-> {"search_knowledge_base"}]

\* (variant: the research task given the analysis task as context)
ContextCyclic ==
    [research_task |-> <<"analysis_task">>,
     analysis_task |-> <<"research_task">>,
     report_task |-> <<"research_task", "analysis_task">>]
\* the context list given to each Task by create_analysis_crew
TaskContextLists ==
    [research_task |-> <<>>,
     analysis_task |-> <<"research_task">>,
     report_task |-> <<"research_task", "analysis_task">>]

\* Crew(agents=[...], tasks=[...], process=Process.sequential)
CrewOf(topic) ==
    [tag |-> "crew",
     agents |-> <<"researcher", "analyst", "writer">>,
     agent |-> [researcher |-> Agent("Research Analyst"),
                analyst |-> Agent("Data Analyst"),
                writer |-> Agent("Report Writer")],
     tasks |-> <<"research_task", "analysis_task", "report_task">>,
     agentOf |-> [research_task |-> "researcher",
                  analysis_task |-> "analyst",
                  report_task |-> "writer"],
     context |-> TaskContextLists,
     process |-> "sequential",
     topic |-> topic]

NoTaskValues == [t \in Tasks |-> None]

create_analysis_crew(topic) ==
    /\ crew' = CrewOf(topic)
    /\ taskState' = [t \in Tasks |-> "pending"]
    /\ taskContext' = [t \in Tasks |-> <<>>]
    /\ taskOutput' = NoTaskValues
    /\ toolCalls' = [t \in Tasks |-> 0]
    /\ crewBeforeEngine' = (query_engine = None)
    /\ last' = Op("create_analysis_crew", "returned", CrewOf(topic), <<>>, <<>>)

\* ---------------------------------- crew.kickoff(), Process.sequential
\* position in crew.tasks of the task the sequential process runs next
NextTaskIndex ==
    Cardinality({i \in 1..Len(crew.tasks) : taskState[crew.tasks[i]] = "done"}) + 1

NoneRunning == \A t \in Tasks : taskState[t] # "running"

\* the sequential process starts the next task of crew.tasks once the previous
\* one is done, and hands it the outputs of the tasks in its context list
Crew_start_task ==
    /\ pc = "kickoff"
    /\ NoneRunning
    /\ NextTaskIndex <= Len(crew.tasks)
    /\ LET t == crew.tasks[NextTaskIndex]
           ctx == crew.context[t]
       IN /\ taskState' = [taskState EXCEPT ![t] = "running"]
          /\ taskContext' = [taskContext EXCEPT
                               ![t] = [i \in 1..Len(ctx) |-> taskOutput[ctx[i]]]]
          /\ last' = Op("start_task", "returned", None, <<>>, <<>>)
    /\ UNCHANGED <<kbVars, query_engine, crew, taskOutput, toolCalls, crewBeforeEngine,
                   outVars, pc>>

\* the running task's agent uses its tool; an exception of the tool is caught
\* by the framework and reported to the agent
Crew_tool_call ==
    /\ pc = "kickoff"
    /\ \E t \in Tasks, q \in Queries, queryFails \in BOOLEAN :
         /\ taskState[t] = "running"
         /\ "search_knowledge_base" \in crew.agent[crew.agentOf[t]].tools
         /\ toolCalls[t] < MaxToolCalls
         /\ toolCalls' = [toolCalls EXCEPT ![t] = @ + 1]
         /\ search_knowledge_base(q, queryFails)
    /\ UNCHANGED <<kbVars, query_engine, crew, taskState, taskContext, taskOutput,
                   crewBeforeEngine, outVars, pc>>

Crew_finish_task ==
    /\ pc = "kickoff"
    /\ \E t \in Tasks :
         /\ taskState[t] = "running"
         /\ taskState' = [taskState EXCEPT ![t] = "done"]
         /\ taskOutput' = [taskOutput EXCEPT
                             ![t] = [tag |-> "output", task |-> t,
                                     agent |-> crew.agentOf[t],
                                     context |-> taskContext[t]]]
         /\ last' = Op("finish_task", "returned", taskOutput'[t], <<>>, <<>>)
    /\ UNCHANGED <<kbVars, query_engine, crew, taskContext, toolCalls, crewBeforeEngine,
                   outVars, pc>>

\* the language model behind an agent fails: kickoff raises, main ends
Crew_fail ==
    /\ pc = "kickoff"
    /\ \E t \in Tasks : taskState[t] = "running"
    /\ pc' = "aborted"
    /\ last' = Op("kickoff", "raised", Exception("LLMError"), <<>>, <<>>)
    /\ UNCHANGED <<kbVars, query_engine, crewVars, outVars>>

\* ------------------------------------------------------------------ main
kb_builder == "kb1"
MainPdfPaths == <<"./data/report1.pdf", "./data/analysis.pdf">>
MainDocxPaths == <<"./data/document1.docx">>
MainTxtPaths == <<"./data/notes.txt", "./data/summary.txt">>
MainUrls == <<"https://example.com/article1", "https://example.com/article2">>
MainTopic == "Analyze the key trends and patterns"

\* where main continues after a call: an exception ends the run
After(next) == IF last'.outcome = "raised" THEN "aborted" ELSE next

Main_load_pdfs ==
    /\ pc = "load_pdfs"
    /\ \E pages \in [1..Len(MainPdfPaths) -> PageCounts],
          failAt \in 0..Len(MainPdfPaths) :
         load_pdfs(kb_builder, MainPdfPaths, pages, failAt)
    /\ pc' = After("load_docx")
    /\ UNCHANGED <<query_engine, crewVars, outVars>>

Main_load_docx ==
    /\ pc = "load_docx"
    /\ \E failAt \in 0..Len(MainDocxPaths) :
         load_docx(kb_builder, MainDocxPaths, failAt)
    /\ pc' = After("load_text_files")
    /\ UNCHANGED <<query_engine, crewVars, outVars>>

Main_load_text_files ==
    /\ pc = "load_text_files"
    /\ \E failAt \in 0..Len(MainTxtPaths) :
         load_text_files(kb_builder, MainTxtPaths, failAt)
    /\ pc' = After("add_web_content")
    /\ UNCHANGED <<query_engine, crewVars, outVars>>

Main_add_web_content ==
    /\ pc = "add_web_content"
    /\ \E failed \in BOOLEAN : add_web_content(kb_builder, MainUrls, failed)
    /\ pc' = After("build_index")
    /\ UNCHANGED <<query_engine, crewVars, outVars>>

Main_build_index ==
    /\ pc = "build_index"
    /\ \E fail \in {"none", "index", "persist"} :
         build_index(kb_builder, DefaultDir, fail)
    /\ pc' = After("get_query_engine")
    /\ UNCHANGED <<query_engine, crewVars, outVars>>

Main_get_query_engine ==
    /\ pc = "get_query_engine"
    /\ assign_query_engine(kb_builder, DefaultTopK)
    /\ pc' = After("create_crew")
    /\ UNCHANGED <<crewVars, outVars>>

Main_create_crew ==
    /\ pc = "create_crew"
    /\ create_analysis_crew(MainTopic)
    /\ pc' = "kickoff"
    /\ UNCHANGED <<kbVars, query_engine, outVars>>

\* crew.kickoff() returns the output of the last task once every task is done
Main_kickoff_returns ==
    /\ pc = "kickoff"
    /\ \A t \in Tasks : taskState[t] = "done"
    /\ result' = taskOutput[crew.tasks[Len(crew.tasks)]]
    /\ pc' = "print"
    /\ last' = Op("kickoff", "returned", result', <<>>, <<>>)
    /\ UNCHANGED <<kbVars, query_engine, crewVars, printed, report>>

Main_print ==
    /\ pc = "print"
    /\ printed' = Str(result)
    /\ pc' = "write_report"
    /\ UNCHANGED <<kbVars, query_engine, crewVars, result, report, last>>

\* (variant: the report written without waiting for kickoff to return)
Main_write_report_unordered ==
    /\ pc \in {"kickoff", "write_report"}
    /\ report' = Str(result)
    /\ pc' = "done"
    /\ UNCHANGED <<kbVars, query_engine, crewVars, result, printed, last>>
Main_write_report ==
    /\ pc = "write_report"
    /\ report' = Str(result)
    /\ pc' = "done"
    /\ UNCHANGED <<kbVars, query_engine, crewVars, result, printed, last>>

\* ------------------------------------------------- the operations, called
\* in any order by a caller that holds the builders B and persists to the
\* directories D: arguments and library outcomes are chosen freely
PathLists(S) == UNION {[1..n -> S] : n \in 0..MaxDocs}

TotalDocs == Len(documents["kb1"]) + Len(documents["kb2"])

\* the bound on documents: the call is made only if what it loads still fits
Fits == TotalDocs' <= MaxDocs

API_load_pdfs(B) ==
    /\ \E b \in B, paths \in PathLists(PdfPaths) :
         \E pages \in [1..Len(paths) -> PageCounts], failAt \in 0..Len(paths) :
           load_pdfs(b, paths, pages, failAt)
    /\ Fits
    /\ UNCHANGED <<query_engine, crewVars, outVars, pc>>

API_load_docx(B) ==
    /\ \E b \in B, paths \in PathLists(DocxPaths) :
         \E failAt \in 0..Len(paths) : load_docx(b, paths, failAt)
    /\ Fits
    /\ UNCHANGED <<query_engine, crewVars, outVars, pc>>

API_load_text_files(B) ==
    /\ \E b \in B, paths \in PathLists(TxtPaths) :
         \E failAt \in 0..Len(paths) : load_text_files(b, paths, failAt)
    /\ Fits
    /\ UNCHANGED <<query_engine, crewVars, outVars, pc>>

API_add_web_content(B) ==
    /\ \E b \in B, urls \in PathLists(Urls), failed \in BOOLEAN :
         add_web_content(b, urls, failed)
    /\ Fits
    /\ UNCHANGED <<query_engine, crewVars, outVars, pc>>

API_build_index(B, D) ==
    /\ nextId <= MaxBuilds
    /\ \E b \in B, dir \in D, fail \in {"none", "index", "persist"} :
         build_index(b, dir, fail)
    /\ UNCHANGED <<query_engine, crewVars, outVars, pc>>

API_load_index(B, D) ==
    /\ \E b \in B, dir \in D : load_index(b, dir)
    /\ UNCHANGED <<query_engine, crewVars, outVars, pc>>

API_get_query_engine(B) ==
    /\ \E b \in B, k \in TopKs : get_query_engine(b, k)
    /\ UNCHANGED <<query_engine, crewVars, outVars, pc>>

API_assign_query_engine(B) ==
    /\ \E b \in B : assign_query_engine(b, DefaultTopK)
    /\ UNCHANGED <<crewVars, outVars, pc>>

API_create_analysis_crew ==
    /\ create_analysis_crew(MainTopic)
    /\ UNCHANGED <<kbVars, query_engine, outVars, pc>>

API_search_knowledge_base ==
    /\ \E q \in Queries, queryFails \in BOOLEAN : search_knowledge_base(q, queryFails)
    /\ UNCHANGED <<kbVars, query_engine, crewVars, outVars, pc>>

\* ------------------------------------------------------- specifications
\* two builders just constructed, nothing on disk, the global not yet set;
\* at is where main() stands ("idle": it is not running)
InitAt(at) ==
    /\ documents = [b \in Builders |-> <<>>]
    /\ index = [b \in Builders |-> None]
    /\ storage = [d \in Dirs |-> None]
    /\ nextId = 1
    /\ query_engine = None
    /\ crew = None
    /\ taskState = [t \in Tasks |-> "pending"]
    /\ taskContext = [t \in Tasks |-> <<>>]
    /\ taskOutput = NoTaskValues
    /\ toolCalls = [t \in Tasks |-> 0]
    /\ result = None
    /\ printed = None
    /\ report = None
    /\ pc = at
    /\ last = Op("init", "returned", None, <<>>, <<>>)
    /\ added = [b \in Builders |-> <<>>]
    /\ assigned = [b \in Builders |-> FALSE]
    /\ completed = [b \in Builders |-> FALSE]
    /\ lastBuilt = [d \in Dirs |-> None]
    /\ crewBeforeEngine = FALSE

Init == InitAt("idle")

\* a caller that builds, persists and reloads indexes on two builders
Next ==
    \/ API_load_text_files(Builders)
    \/ API_build_index(Builders, Dirs)
    \/ API_load_index(Builders, Dirs)
    \/ API_get_query_engine(Builders)

Spec == Init /\ [][Next]_vars

\* a caller that fills one builder from every kind of source and indexes it
LoadNext ==
    \/ API_load_pdfs({kb_builder})
    \/ API_load_docx({kb_builder})
    \/ API_load_text_files({kb_builder})
    \/ API_add_web_content({kb_builder})
    \/ API_build_index({kb_builder}, {DefaultDir})

LoadSpec == Init /\ [][LoadNext]_vars

\* a caller that builds indexes, sets the global, creates crews and calls
\* the tool
ToolNext ==
    \/ API_build_index(Builders, {DefaultDir})
    \/ API_assign_query_engine(Builders)
    \/ API_create_analysis_crew
    \/ API_search_knowledge_base

ToolSpec == Init /\ [][ToolNext]_vars

\* main() has constructed kb_builder; load_pdfs is its next call
MainInit == InitAt("load_pdfs")

MainNext ==
    \/ Main_load_pdfs
    \/ Main_load_docx
    \/ Main_load_text_files
    \/ Main_add_web_content
    \/ Main_build_index
    \/ Main_get_query_engine
    \/ Main_create_crew
    \/ Crew_start_task
    \/ Crew_tool_call
    \/ Crew_finish_task
    \/ Crew_fail
    \/ Main_kickoff_returns
    \/ Main_print
    \/ Main_write_report

MainSpec == MainInit /\ [][MainNext]_vars

\* ================================================================ claims

IsPrefix(s, t) == Len(s) <= Len(t) /\ s = SubSeq(t, 1, Len(s))

\* what the four load calls of main() leave in kb_builder.documents when the
\* PDF files have the given numbers of pages
MainDocuments(pages) ==
    PdfRead(MainPdfPaths, pages, Len(MainPdfPaths))
        \o DocxRead(MainDocxPaths, Len(MainDocxPaths))
        \o TextRead(MainTxtPaths, Len(MainTxtPaths))
        \o SimpleWebPageReader_load_data(MainUrls)

MainPageCounts == [1..Len(MainPdfPaths) -> PageCounts]

KickoffStarted == \E t \in Tasks : taskState[t] # "pending"

KickoffReturned == result # None /\ \A t \in Tasks : taskState[t] = "done"

IndexPersisted == index[kb_builder] # None /\ storage[DefaultDir] = index[kb_builder]

\* C1: in every run of main() the steps happen in the fixed order loads (pdf,
\* docx, text, web), build_index with its persist to ./storage, assignment of
\* query_engine, crew creation and kickoff, print and report: the documents
\* are always a prefix of the four loads' output in call order; an index
\* exists only over the complete output of the four loads; the global is set
\* only once that index is persisted; the crew exists only once the global is
\* set; kickoff starts only once the crew exists and the index is persisted;
\* the result is printed and the report written only after kickoff returned.
C1_MainOrder ==
    /\ \E pages \in MainPageCounts :
         IsPrefix(documents[kb_builder], MainDocuments(pages))
    /\ index[kb_builder] # None =>
         /\ \E pages \in MainPageCounts : documents[kb_builder] = MainDocuments(pages)
         /\ index[kb_builder].docs = documents[kb_builder]
    /\ storage[DefaultDir] # None => IndexPersisted
    /\ query_engine # None =>
         /\ IndexPersisted
         /\ query_engine = AsQueryEngine(index[kb_builder], DefaultTopK)
    /\ crew # None => query_engine # None
    /\ KickoffStarted => crew # None /\ IndexPersisted
    /\ result # None => KickoffReturned
    /\ printed # None => KickoffReturned /\ printed = Str(result)
    /\ report # None => KickoffReturned /\ printed # None /\ report = Str(result)
    /\ pc = "done" => report # None

\* a run of main() that reached its end with the report written
C1_Witness ==
    /\ pc = "done"
    /\ report = Str(taskOutput["report_task"])
    /\ IndexPersisted
    /\ Len(documents[kb_builder]) >= 7

PositionOf(t) == CHOOSE i \in 1..Len(crew.tasks) : crew.tasks[i] = t

InContext(t) == {crew.context[t][i] : i \in 1..Len(crew.context[t])}

\* C2: the crew runs exactly the three tasks research, analysis, report in
\* that order, one at a time, each with its own agent; every context task
\* comes strictly earlier in the order (research: none, analysis: research,
\* report: research and analysis); a task that has started has all its
\* context tasks done and was handed exactly their outputs.
C2_SequentialContext ==
    crew # None =>
      /\ crew.tasks = <<"research_task", "analysis_task", "report_task">>
      /\ crew.process = "sequential"
      /\ crew.agentOf = [research_task |-> "researcher", analysis_task |-> "analyst",
                         report_task |-> "writer"]
      /\ crew.context["research_task"] = <<>>
      /\ crew.context["analysis_task"] = <<"research_task">>
      /\ crew.context["report_task"] = <<"research_task", "analysis_task">>
      /\ \A t \in Tasks : \A c \in InContext(t) : PositionOf(c) < PositionOf(t)
      /\ Cardinality({t \in Tasks : taskState[t] = "running"}) <= 1
      /\ \A t \in Tasks :
           taskState[t] # "pending" =>
             /\ \A u \in Tasks : PositionOf(u) < PositionOf(t) => taskState[u] = "done"
             /\ \A c \in InContext(t) : taskState[c] = "done"
             /\ Len(taskContext[t]) = Len(crew.context[t])
             /\ \A i \in 1..Len(crew.context[t]) :
                  /\ taskContext[t][i] # None
                  /\ taskContext[t][i] = taskOutput[crew.context[t][i]]

\* the three tasks are done and the report task was handed the outputs of the
\* research task and of the analysis task, which was handed the research output
C2_Witness ==
    /\ crew # None
    /\ \A t \in Tasks : taskState[t] = "done"
    /\ taskOutput["report_task"].context
         = <<taskOutput["research_task"], taskOutput["analysis_task"]>>
    /\ taskOutput["analysis_task"].context = <<taskOutput["research_task"]>>
    /\ taskOutput["research_task"].context = <<>>

\* C3 as stated: get_query_engine raises exactly when neither build_index nor
\* load_index has completed on the builder.
C3_RaisesIffNothingCompleted ==
    [][\A b \in Builders, k \in TopKs :
         get_query_engine(b, k) =>
           (last'.outcome = "raised" <=> ~completed[b])]_vars

\* C3, amended: get_query_engine raises ValueError exactly when the builder's
\* index is None, which is exactly when no build_index has created an index on
\* it (a build_index whose persist step then raised included) and no load_index
\* has completed on it; when it raises it changes neither documents nor index;
\* after a completed build_index or load_index it returns a query engine over
\* the current index.
C3_RaisesIffIndexNone ==
    [][\A b \in Builders, k \in TopKs :
         get_query_engine(b, k) =>
           /\ last'.outcome = "raised" <=> index[b] = None
           /\ index[b] = None <=> ~assigned[b]
           /\ last'.outcome = "raised" =>
                /\ last'.value = Exception("ValueError")
                /\ documents' = documents
                /\ index' = index
           /\ completed[b] =>
                /\ last'.outcome = "returned"
                /\ last'.value = AsQueryEngine(index[b], k)
                /\ index' = index]_vars

\* get_query_engine returned an engine on a builder on which no build_index
\* and no load_index has completed: its build_index raised while persisting
C3_Witness ==
    /\ last.op = "get_query_engine"
    /\ last.outcome = "returned"
    /\ \E b \in Builders :
         /\ ~completed[b]
         /\ assigned[b]
         /\ last.value.index = index[b]

\* C4: search_knowledge_base(query) returns "Error: Knowledge base not
\* initialized" as a value, issuing no query, whenever the global
\* query_engine is None; whenever it is set, the tool issues exactly one
\* query, with the given text, to the engine the global holds when the tool
\* is called, and what it returns is the string form of that query's response.
C4_ToolReadsGlobal ==
    [][\A q \in Queries, queryFails \in BOOLEAN :
         search_knowledge_base(q, queryFails) =>
           /\ query_engine = None =>
                /\ last'.outcome = "returned"
                /\ last'.value = NotInitialized
                /\ last'.issued = <<>>
           /\ query_engine # None =>
                /\ last'.issued = <<[engine |-> query_engine, text |-> q]>>
                /\ last'.outcome = "returned" =>
                     last'.value = Str(Response(query_engine, q))]_vars

\* the tool answered from an engine although the crew, and so its agents with
\* the tool, were created while the global was still None
C4_Witness ==
    /\ crew # None
    /\ crewBeforeEngine
    /\ last.op = "search_knowledge_base"
    /\ last.outcome = "returned"
    /\ last.issued # <<>>
    /\ last.value = Str(Response(query_engine, last.issued[1].text))

\* C5: self.documents is always the concatenation, in call order, of every
\* document the load calls added to the builder since it was constructed;
\* build_index hands exactly that sequence to the indexer, and when it
\* returns, the index it returns is the new index it stored in self.index,
\* built over that sequence.  (An index built earlier covers the documents
\* added up to its build.)
C5_IndexesAllDocuments ==
    /\ \A b \in Builders : documents[b] = added[b]
    /\ \A b \in Builders : index[b] # None => IsPrefix(index[b].docs, added[b])
    /\ last.op = "build_index" =>
         /\ last.input = added[kb_builder]
         /\ last.outcome = "returned" =>
              /\ last.value = index[kb_builder]
              /\ index[kb_builder] = VectorStoreIndex(nextId - 1, added[kb_builder])

\* build_index returned an index over a web page loaded first and a text
\* file loaded after it, in that order
C5_Witness ==
    /\ last.op = "build_index"
    /\ last.outcome = "returned"
    /\ Len(last.input) = 2
    /\ last.input[1].kind = "web"
    /\ last.input[2].kind = "txt"
    /\ index[kb_builder].docs = last.input

Fresh(b) == documents[b] = <<>> /\ index[b] = None /\ ~assigned[b]

\* C6: once a build_index(persist_dir=d) has returned, load_index(persist_dir=d)
\* on any builder, a fresh one included, returns; the builder's index is then
\* the one the most recent such build_index persisted to d, its documents are
\* what they were (none, on a fresh builder), and get_query_engine succeeds.
C6_PersistLoadRoundTrip ==
    [][\A b \in Builders, d \in Dirs :
         (load_index(b, d) /\ lastBuilt[d] # None) =>
           /\ last'.outcome = "returned"
           /\ last'.value = lastBuilt[d]
           /\ index'[b] = lastBuilt[d]
           /\ documents'[b] = documents[b]
           /\ Fresh(b) => documents'[b] = <<>>
           /\ QueryEngineResult(b, DefaultTopK)'.outcome = "returned"
           /\ QueryEngineResult(b, DefaultTopK)'.value.index = lastBuilt[d]]_vars

\* a builder that never loaded a document holds, after load_index, an index
\* over documents: the one another builder built from its documents and
\* persisted
C6_Witness ==
    /\ last.op = "load_index"
    /\ last.outcome = "returned"
    /\ \E b \in Builders, d \in Dirs :
         /\ documents[b] = <<>>
         /\ index[b] = lastBuilt[d]
         /\ last.value = index[b]
         /\ index[b].docs # <<>>

====
